---- MODULE Spec2Model ----
(***************************************************************************)
(* The two components of src/src/App.tsx as state machines.                *)
(*                                                                         *)
(*   DataTable  (Spec):      props data, columns, keyExtractor, selectable,*)
(*                           onRowSelect, loading; hook state selectedRows *)
(*                           and sortConfig; handlers handleSort,          *)
(*                           handleRowSelect, handleSelectAll; the host's  *)
(*                           toggleTableLoading and its 2 s timer.         *)
(*   InputField (SpecInput): props type, loading, disabled,                *)
(*                           showClearButton, onChange, value; hook state  *)
(*                           showPassword and isFocused.                   *)
(*                                                                         *)
(* A record object of the data array is named by its position in data      *)
(* (1..Len(data)); an array handed to onRowSelect is the sequence of the    *)
(* positions of the record objects it holds.  Row keys produced by the     *)
(* default keyExtractor are the 0-based indices of JavaScript.             *)
(***************************************************************************)
EXTENDS Integers, Sequences, FiniteSets, TLC

\* ------------------------------------------------------------------ bounds
MaxRows == 3
MaxVal == 3
MaxTimers == 2
MaxValueLen == 2

\* ------------------------------------------------------------- value space
Values == 1..MaxVal

\* T extends Record<string, any>: the records of the table, one field "id".
Records == [id : Values]

DataChoices == UNION {[1..n -> Records] : n \in 0..MaxRows}

\* a[key] of a key that is no field of the record
Undefined == -1

\* The column list handed to the table: a sortable column whose key is its
\* dataIndex, a sortable column whose key differs from its dataIndex, and a
\* column that is not sortable.
DemoColumns ==
    << [key |-> "id",     dataIndex |-> "id", sortable |-> TRUE],
       [key |-> "label",  dataIndex |-> "id", sortable |-> TRUE],
       [key |-> "status", dataIndex |-> "id", sortable |-> FALSE] >>

\* keyExtractor prop: omitted ("default": (record, index) => index) or
\* (record) => record.id
KeyExtractors == {"default", "id"}

Null == [key |-> "", direction |-> "none"]

InputTypes == {"text", "password", "email"}

Chars == {"a", "b"}

Strings == UNION {[1..n -> Chars] : n \in 0..MaxValueLen}

VARIABLES
    \* DataTable props
    data, columns, keyExtractorProp, selectable, hasOnRowSelect,
    \* ComponentDemo state: tableLoading and the pending setTimeout callbacks
    loading, timers,
    \* DataTable hook state
    selectedRows, sortConfig,
    \* the onRowSelect calls made by the most recent handler, and that handler
    emitted, lastOp,
    \* per row key, whether the most recent selection action on it checked it
    lastChecked,
    \* InputField props
    type, inputLoading, disabled, showClearButton, hasOnChange, value,
    \* InputField hook state
    showPassword, isFocused

tableVars == <<data, columns, keyExtractorProp, selectable, hasOnRowSelect,
               loading, timers, selectedRows, sortConfig, emitted, lastOp,
               lastChecked>>

inputVars == <<type, inputLoading, disabled, showClearButton, hasOnChange,
               value, showPassword, isFocused>>

vars == <<data, columns, keyExtractorProp, selectable, hasOnRowSelect,
          loading, timers, selectedRows, sortConfig, emitted, lastOp,
          lastChecked, type, inputLoading, disabled, showClearButton,
          hasOnChange, value, showPassword, isFocused>>

\* ------------------------------------------------------- DataTable helpers

\* record[key]; undefined when the record has no such field
Lookup(record, key) ==
    IF key \in DOMAIN record THEN record[key] ELSE Undefined

\* JavaScript's x < y on numbers and undefined: false when either is undefined
JsLess(x, y) == x # Undefined /\ y # Undefined /\ x < y

\* the comparator handed to sort
compare(a, b, cfg) ==
    LET aValue == Lookup(a, cfg.key)
        bValue == Lookup(b, cfg.key)
    IN  IF JsLess(aValue, bValue)
          THEN (IF cfg.direction = "asc" THEN -1 ELSE 1)
          ELSE IF JsLess(bValue, aValue)
                 THEN (IF cfg.direction = "asc" THEN 1 ELSE -1)
                 ELSE 0

\* Array.prototype.sort is stable: x, which follows every element of s in the
\* array, goes after all elements that do not compare greater than it.
RECURSIVE insert(_, _, _, _)
insert(s, x, d, cfg) ==
    IF s = <<>>
      THEN <<x>>
      ELSE IF compare(d[s[Len(s)]], d[x], cfg) > 0
             THEN Append(insert(SubSeq(s, 1, Len(s) - 1), x, d, cfg), s[Len(s)])
             ELSE Append(s, x)

RECURSIVE arraySort(_, _, _)
arraySort(n, d, cfg) ==
    IF n = 0 THEN <<>> ELSE insert(arraySort(n - 1, d, cfg), n, d, cfg)

\* The positions in d of the rows of the sorted view, top to bottom.
sortedOrder(d, cfg) ==
    IF cfg = Null THEN [i \in 1..Len(d) |-> i] ELSE arraySort(Len(d), d, cfg)

\* useMemo(() => ..., [data, sortConfig])
sortedData == [i \in 1..Len(data) |-> data[sortedOrder(data, sortConfig)[i]]]

\* keyExtractor(record, index), index 0-based
keyExtractor(record, index) ==
    IF keyExtractorProp = "default" THEN index ELSE record[keyExtractorProp]

\* newDirection without the test that the column is the one sorted by
newDirectionIgnoringColumn(cfg, columnKey) ==
    IF cfg.direction = "asc" THEN "desc" ELSE "asc"

newDirection(cfg, columnKey) ==
    IF cfg.key = columnKey /\ cfg.direction = "asc" THEN "desc" ELSE "asc"

\* newSelectedRows that adds the key whatever the checkbox reports
newSelectedRowsAlwaysAdding(sel, rowKey, checked) == sel \cup {rowKey}

newSelectedRows(sel, rowKey, checked) ==
    IF checked THEN sel \cup {rowKey} ELSE sel \ {rowKey}

\* selectedData that filters by the set of the render's closure, selectedRows
selectedDataStale(sel) ==
    SelectSeq([i \in 1..Len(data) |-> i],
              LAMBDA i : keyExtractor(data[i], i - 1) \in selectedRows)

\* data.filter((_, index) => newSelectedRows.has(keyExtractor(data[index], index)))
selectedData(sel) ==
    SelectSeq([i \in 1..Len(data) |-> i],
              LAMBDA i : keyExtractor(data[i], i - 1) \in sel)

\* data.map((record, index) => keyExtractor(record, index)) as a Set
allKeys == {keyExtractor(data[i], i - 1) : i \in 1..Len(data)}

isAllSelected == Cardinality(selectedRows) = Len(data) /\ Len(data) > 0

\* isIndeterminate with <= in place of <
isIndeterminateInclusive ==
    Cardinality(selectedRows) > 0 /\ Cardinality(selectedRows) <= Len(data)

isIndeterminate ==
    Cardinality(selectedRows) > 0 /\ Cardinality(selectedRows) < Len(data)

\* the table rendered without the early return on loading
TableRenderedWhileLoading == Len(data) # 0

\* Neither early return is taken: the <table> is rendered.
TableRendered == ~loading /\ Len(data) # 0

\* rowKey and isSelected of the row rendered at 0-based position index
rowKeyAt(index) == keyExtractor(sortedData[index + 1], index)

isSelectedAt(index) == rowKeyAt(index) \in selectedRows

\* ------------------------------------------------------ DataTable actions

\* handleSort that also resets the selection
handleSortClearingSelection(columnKey) ==
    /\ sortConfig' = [key |-> columnKey,
                      direction |-> newDirection(sortConfig, columnKey)]
    /\ selectedRows' = {}
    /\ lastChecked' = [k \in DOMAIN lastChecked |-> FALSE]
    /\ emitted' = <<>>
    /\ lastOp' = "handleSort"
    /\ UNCHANGED <<data, columns, keyExtractorProp, selectable, hasOnRowSelect,
                   loading, timers>>
    /\ UNCHANGED inputVars

handleSort(columnKey) ==
    /\ sortConfig' = [key |-> columnKey,
                      direction |-> newDirection(sortConfig, columnKey)]
    /\ emitted' = <<>>
    /\ lastOp' = "handleSort"
    /\ UNCHANGED <<data, columns, keyExtractorProp, selectable, hasOnRowSelect,
                   loading, timers, selectedRows, lastChecked>>
    /\ UNCHANGED inputVars

handleRowSelect(rowKey, checked) ==
    LET newSel == newSelectedRows(selectedRows, rowKey, checked)
    IN  /\ selectedRows' = newSel
        /\ emitted' = IF hasOnRowSelect THEN <<selectedData(newSel)>> ELSE <<>>
        /\ lastOp' = "handleRowSelect"
        /\ lastChecked' = [lastChecked EXCEPT ![rowKey] = checked]
        /\ UNCHANGED <<data, columns, keyExtractorProp, selectable,
                       hasOnRowSelect, loading, timers, sortConfig>>
        /\ UNCHANGED inputVars

handleSelectAll(checked) ==
    /\ IF checked
         THEN /\ selectedRows' = allKeys
              /\ emitted' = IF hasOnRowSelect
                              THEN << [i \in 1..Len(data) |-> i] >>
                              ELSE <<>>
         ELSE /\ selectedRows' = {}
              /\ emitted' = IF hasOnRowSelect THEN << <<>> >> ELSE <<>>
    /\ lastOp' = "handleSelectAll"
    /\ lastChecked' = [k \in DOMAIN lastChecked |-> checked]
    /\ UNCHANGED <<data, columns, keyExtractorProp, selectable, hasOnRowSelect,
                   loading, timers, sortConfig>>
    /\ UNCHANGED inputVars

\* onClick of the header button of a sortable column
ClickSort(c) ==
    /\ TableRendered
    /\ columns[c].sortable
    /\ handleSort(columns[c].key)

\* onChange of the checkbox of the row at 0-based position index; a click
\* on a controlled checkbox reports the opposite of what it shows
ClickRow(index) ==
    /\ TableRendered
    /\ selectable
    /\ handleRowSelect(rowKeyAt(index), ~isSelectedAt(index))

\* onChange of the "Select all rows" checkbox
ClickSelectAll ==
    /\ TableRendered
    /\ selectable
    /\ handleSelectAll(~isAllSelected)

\* ComponentDemo.toggleTableLoading: setTableLoading(true) and a new timer
toggleTableLoading ==
    /\ timers < MaxTimers
    /\ loading' = TRUE
    /\ timers' = timers + 1
    /\ emitted' = <<>>
    /\ lastOp' = "toggleTableLoading"
    /\ UNCHANGED <<data, columns, keyExtractorProp, selectable, hasOnRowSelect,
                   selectedRows, sortConfig, lastChecked>>
    /\ UNCHANGED inputVars

\* a timer of toggleTableLoading fires: setTableLoading(false)
TimerFires ==
    /\ timers > 0
    /\ loading' = FALSE
    /\ timers' = timers - 1
    /\ emitted' = <<>>
    /\ lastOp' = "TimerFires"
    /\ UNCHANGED <<data, columns, keyExtractorProp, selectable, hasOnRowSelect,
                   selectedRows, sortConfig, lastChecked>>
    /\ UNCHANGED inputVars

\* ------------------------------------------------------ InputField

inputType == IF type = "password" /\ showPassword THEN "text" ELSE type

\* the toggle button rendered without the test on loading
ToggleRenderedWhileLoading == type = "password"

\* the password toggle button is rendered
ToggleRendered == ~inputLoading /\ type = "password"

\* the clear button is rendered
ClearRendered ==
    ~inputLoading /\ showClearButton /\ value # <<>> /\ type # "password"

\* onClick={() => setShowPassword(!showPassword)}
TogglePassword ==
    /\ ToggleRendered
    /\ showPassword' = ~showPassword
    /\ UNCHANGED <<type, inputLoading, disabled, showClearButton, hasOnChange,
                   value, isFocused>>
    /\ UNCHANGED tableVars

onFocus ==
    /\ ~disabled
    /\ ~isFocused
    /\ isFocused' = TRUE
    /\ UNCHANGED <<type, inputLoading, disabled, showClearButton, hasOnChange,
                   value, showPassword>>
    /\ UNCHANGED tableVars

onBlur ==
    /\ isFocused
    /\ isFocused' = FALSE
    /\ UNCHANGED <<type, inputLoading, disabled, showClearButton, hasOnChange,
                   value, showPassword>>
    /\ UNCHANGED tableVars

\* the user edits the text; the host's onChange stores e.target.value
onChange(v) ==
    /\ ~disabled
    /\ isFocused
    /\ hasOnChange
    /\ v # value
    /\ value' = v
    /\ UNCHANGED <<type, inputLoading, disabled, showClearButton, hasOnChange,
                   showPassword, isFocused>>
    /\ UNCHANGED tableVars

handleClear ==
    /\ ClearRendered
    /\ value' = IF hasOnChange THEN <<>> ELSE value
    /\ UNCHANGED <<type, inputLoading, disabled, showClearButton, hasOnChange,
                   showPassword, isFocused>>
    /\ UNCHANGED tableVars

\* ------------------------------------------------------ specifications

\* the hook state of a freshly mounted DataTable under given props
TableMounted ==
    /\ loading = FALSE
    /\ timers = 0
    /\ selectedRows = {}
    /\ sortConfig = Null
    /\ emitted = <<>>
    /\ lastOp = "mount"
    /\ lastChecked = [k \in allKeys |-> FALSE]

\* the hook state of a freshly mounted InputField
InputMounted ==
    /\ showPassword = FALSE
    /\ isFocused = FALSE

Init ==
    /\ data \in DataChoices
    /\ columns = DemoColumns
    /\ keyExtractorProp \in KeyExtractors
    /\ selectable \in BOOLEAN
    /\ hasOnRowSelect \in BOOLEAN
    /\ TableMounted
    /\ type = "password"
    /\ inputLoading = FALSE
    /\ disabled = FALSE
    /\ showClearButton = FALSE
    /\ hasOnChange = TRUE
    /\ value = <<>>
    /\ InputMounted

Next ==
    \/ \E c \in 1..Len(columns) : ClickSort(c)
    \/ \E index \in 0..(Len(data) - 1) : ClickRow(index)
    \/ ClickSelectAll
    \/ toggleTableLoading
    \/ TimerFires

Spec == Init /\ [][Next]_vars

InitInput ==
    /\ data = <<>>
    /\ columns = DemoColumns
    /\ keyExtractorProp = "default"
    /\ selectable = FALSE
    /\ hasOnRowSelect = FALSE
    /\ TableMounted
    /\ type \in InputTypes
    /\ inputLoading \in BOOLEAN
    /\ disabled \in BOOLEAN
    /\ showClearButton \in BOOLEAN
    /\ hasOnChange \in BOOLEAN
    /\ value \in Strings
    /\ InputMounted

NextInput ==
    \/ TogglePassword
    \/ onFocus
    \/ onBlur
    \/ \E v \in Strings : onChange(v)
    \/ handleClear

SpecInput == InitInput /\ [][NextInput]_vars

\* ------------------------------------------------------ claim vocabulary

\* the key the table gives the record object at position i of data
keyOfDataRow(i) == keyExtractor(data[i], i - 1)

\* 0-based positions of the rows the table renders with a checked checkbox
RenderedSelected == {index \in 0..(Len(data) - 1) : isSelectedAt(index)}

\* the record objects (positions in data) shown in the checked rows
RenderedSelectedRecords ==
    {sortedOrder(data, sortConfig)[index + 1] : index \in RenderedSelected}

Range(s) == {s[j] : j \in 1..Len(s)}

Occurrences(s, r) == Cardinality({j \in 1..Len(s) : s[j] = r})

\* the header checkbox and the row checkboxes are on screen
CheckboxesRendered == TableRendered /\ selectable

SortChangesOrder == sortedOrder(data, sortConfig) # [i \in 1..Len(data) |-> i]

\* ------------------------------------------------------ C1

\* C1: the sorted view is a permutation of data; with no sort configured it
\* is data in its original order; once handleSort has run for a sortable
\* column (sortConfig.key is that column's key) the rows are ordered by
\* record[column.dataIndex], non-decreasing for 'asc' and non-increasing
\* for 'desc'.
C1_SortedByDisplayedValue ==
    /\ \A r \in Records : Occurrences(sortedData, r) = Occurrences(data, r)
    /\ sortConfig = Null => sortedData = data
    /\ \A c \in 1..Len(columns) :
         (columns[c].sortable /\ sortConfig.key = columns[c].key) =>
           \A i \in 1..(Len(data) - 1) :
             LET x == sortedData[i][columns[c].dataIndex]
                 y == sortedData[i + 1][columns[c].dataIndex]
             IN  IF sortConfig.direction = "asc" THEN x <= y ELSE x >= y

\* ------------------------------------------------------ C2

\* C2: every handleRowSelect and handleSelectAll invocation calls
\* onRowSelect, when provided, exactly once, with the records of data whose
\* key is in the selection set as it is after the invocation, in data's
\* original order.
C2_CallbackGetsSelectedRecords ==
    lastOp \in {"handleRowSelect", "handleSelectAll"} =>
      IF hasOnRowSelect
        THEN /\ Len(emitted) = 1
             /\ \A j \in 1..(Len(emitted[1]) - 1) :
                  emitted[1][j] < emitted[1][j + 1]
             /\ Range(emitted[1]) =
                  {i \in 1..Len(data) : keyOfDataRow(i) \in selectedRows}
        ELSE emitted = <<>>

\* a row toggled under an active sort that reorders the rows, a proper part
\* of the rows selected, and the callback called
C2_Witness ==
    /\ lastOp = "handleRowSelect"
    /\ hasOnRowSelect
    /\ SortChangesOrder
    /\ Len(emitted) = 1
    /\ Len(emitted[1]) = 2
    /\ Len(data) = 3

\* ------------------------------------------------------ C3

\* C3: the selection set starts empty, and a row key is in it exactly when
\* the most recent selection action that affected the key (a
\* handleRowSelect on it, or a handleSelectAll) checked it.
C3_SelectionIsLastChecked ==
    /\ lastOp = "mount" => selectedRows = {}
    /\ selectedRows = {k \in DOMAIN lastChecked : lastChecked[k]}

\* some but not all of three row keys selected, seen after a sort
C3_Witness ==
    /\ lastOp = "handleSort"
    /\ Cardinality(allKeys) = 3
    /\ selectedRows # {}
    /\ selectedRows # allKeys

\* ------------------------------------------------------ C4

\* what C4 says of the header checkbox
HeaderCheckboxMatchesRows ==
    /\ isAllSelected <=> Cardinality(RenderedSelected) = Len(data)
    /\ isIndeterminate <=>
         (  Cardinality(RenderedSelected) >= 1
         /\ Cardinality(RenderedSelected) < Len(data))
    /\ ~(isAllSelected /\ isIndeterminate)
    /\ RenderedSelected = {} => (~isAllSelected /\ ~isIndeterminate)

\* keyExtractor gives the rows of data pairwise distinct keys
KeysDistinct ==
    \A i, j \in 1..Len(data) : keyOfDataRow(i) = keyOfDataRow(j) => i = j

\* C4 as stated: for any data and keyExtractor, whenever the "Select all"
\* checkbox is rendered it is checked exactly when every row is rendered as
\* selected, indeterminate exactly when some but not all rows are, never
\* both, and neither when no row is selected.
C4_Original == CheckboxesRendered => HeaderCheckboxMatchesRows

\* C4 as amended: the same, for any data and any keyExtractor that gives
\* the rows of data pairwise distinct keys.
C4_HeaderCheckboxDistinctKeys ==
    (CheckboxesRendered /\ KeysDistinct) => HeaderCheckboxMatchesRows

\* some but not all rows checked, keys taken from the records, rows reordered
C4_Witness ==
    /\ CheckboxesRendered
    /\ KeysDistinct
    /\ keyExtractorProp = "id"
    /\ SortChangesOrder
    /\ isIndeterminate
    /\ Len(data) = 3

\* ------------------------------------------------------ C5

\* C5: while loading is true no table handler is enabled, and the sort
\* configuration and the selection set do not change, so that they are the
\* same when loading returns to false as when it became true.
C5_LoadingFreezesTable ==
    /\ [](loading => ~ENABLED (\/ \E c \in 1..Len(columns) : ClickSort(c)
                               \/ \E index \in 0..(Len(data) - 1) : ClickRow(index)
                               \/ ClickSelectAll))
    /\ [][loading => (sortConfig' = sortConfig /\ selectedRows' = selectedRows)]_vars

\* loading has returned to false over a sorted table with rows selected
C5_Witness ==
    /\ lastOp = "TimerFires"
    /\ ~loading
    /\ sortConfig # Null
    /\ selectedRows # {}

\* ------------------------------------------------------ C6

\* C6: the effective input type is 'text' in place of the type prop exactly
\* when type is 'password' and showPassword is true, and otherwise is the
\* type prop; showPassword starts false; the toggle is available exactly
\* when type is 'password' and loading is false; each activation flips
\* showPassword and nothing else changes it.
C6_PasswordToggle ==
    /\ showPassword = FALSE
    /\ []((type = "password" /\ showPassword) => inputType = "text")
    /\ [](~(type = "password" /\ showPassword) => inputType = type)
    /\ [](ENABLED TogglePassword <=> (type = "password" /\ ~inputLoading))
    /\ [][showPassword' # showPassword =>
            (type = "password" /\ ~inputLoading)]_vars
    /\ [][TogglePassword => showPassword' # showPassword]_vars

\* the password is shown as text after a toggle
C6_Witness ==
    /\ type = "password"
    /\ showPassword
    /\ inputType = "text"
    /\ value # <<>>

\* ------------------------------------------------------ C7

\* C7: for any keyExtractor, the default one included, sorted or not, the
\* records passed to onRowSelect after a row checkbox is toggled are
\* exactly the records whose rows are rendered as checked after the toggle.
C7_ReportedAreRenderedChecked ==
    (lastOp = "handleRowSelect" /\ hasOnRowSelect) =>
      /\ Len(emitted) = 1
      /\ Range(emitted[1]) = RenderedSelectedRecords

\* ------------------------------------------------------ C8

\* the sort state C8 gives for handleSort(columnKey) in state cfg
SortTransition(cfg, columnKey) ==
    IF cfg = Null \/ cfg.key # columnKey
      THEN [key |-> columnKey, direction |-> "asc"]
      ELSE IF cfg.direction = "asc"
             THEN [key |-> columnKey, direction |-> "desc"]
             ELSE [key |-> columnKey, direction |-> "asc"]

\* C8: handleSort(columnKey) moves an unsorted table, or one sorted by
\* another column, to (columnKey, asc), (columnKey, asc) to (columnKey,
\* desc) and (columnKey, desc) to (columnKey, asc); once set, the sort
\* configuration is never null again.
C8_SortTransitions ==
    /\ [][\A c \in 1..Len(columns) :
            ClickSort(c) =>
              sortConfig' = SortTransition(sortConfig, columns[c].key)]_vars
    /\ [][sortConfig # Null => sortConfig' # Null]_vars

\* a column sorted descending, then selection work: still sorted
C8_Witness ==
    /\ sortConfig = [key |-> "label", direction |-> "desc"]
    /\ lastOp = "handleSelectAll"
    /\ selectedRows = {}

\* ------------------------------------------------------ C9

\* C9: handleSort leaves the selection set and the data array unchanged and
\* does not call onRowSelect; handleRowSelect and handleSelectAll leave the
\* sort configuration unchanged.
C9_SortAndSelectionIndependent ==
    /\ [][lastOp' = "handleSort" =>
            (selectedRows' = selectedRows /\ emitted' = <<>> /\ data' = data)]_vars
    /\ [][lastOp' \in {"handleRowSelect", "handleSelectAll"} =>
            sortConfig' = sortConfig]_vars

\* a sort that reorders the rows while some are selected
C9_Witness ==
    /\ lastOp = "handleSort"
    /\ SortChangesOrder
    /\ selectedRows # {}
    /\ sortConfig.direction = "desc"

====
